---------------------------- MODULE Spec2Model ----------------------------
(***************************************************************************)
(* Model of vote_rust/src/lib.rs: the on-chain vote-count program.         *)
(*                                                                         *)
(* One account holds two little-endian u32 vote counts in the first eight  *)
(* bytes of its data.  The host invokes process_instruction with a program *)
(* id, a list of accounts and an instruction payload; the handler checks   *)
(* the account, borrows its data mutably and increments one of the two     *)
(* counts.  The handler is modelled statement by statement (pc), so that   *)
(* the order of its checks is part of the model.                           *)
(*                                                                         *)
(* u32 values are pairs of 16-bit limbs [hi, lo], because 2^32 - 1 does    *)
(* not fit TLC's integers; the arithmetic keeps the full 32-bit width.     *)
(***************************************************************************)
EXTENDS Integers, Sequences, FiniteSets, TLC

VARIABLES
    owner,            \* AccountInfo.owner of the vote account
    data,             \* AccountInfo.data of the vote account: a sequence of bytes
    overflow_checks,  \* whether the build checks arithmetic overflow (debug) or wraps (release)
    program_id,       \* argument: the program's public key
    accounts,         \* argument: the accounts slice (a sequence of account handles)
    instruction_data, \* argument: the instruction payload
    is_writable,      \* AccountInfo.is_writable of the handle passed to this call
    extBorrow,        \* state of the data RefCell when the call starts (held by another holder)
    pc,               \* the statement process_instruction is at
    account,          \* local: the account returned by next_account_info (0 = unset)
    data_ref,         \* local: the handler holds the RefMut returned by try_borrow_mut_data
    result,           \* the ProgramResult of the call, or "Panic", or "None" while running
    opRead,           \* instruction_data[0] has been read in this call
    before,           \* the account data when the running call started
    initial,          \* the account data when the account was handed to the program
    votes1,           \* number of calls so far that returned Ok with opcode 1
    votes2,           \* number of calls so far that returned Ok with opcode 2
    calls,            \* number of calls started so far
    prevResult        \* the result of the previous call when this call repeats it, else "None"

vars == <<owner, data, overflow_checks, program_id, accounts, instruction_data,
          is_writable, extBorrow, pc, account, data_ref, result, opRead, before,
          initial, votes1, votes2, calls, prevResult>>

-----------------------------------------------------------------------------
(* Bounds of the model *)

\* calls of process_instruction in one behaviour
MaxCalls == 2

\* bytes of account data beyond the two counters
MaxTail == 1

-----------------------------------------------------------------------------
(* Bytes and 32-bit words *)

Byte == 0..255

\* 2^16, the base of the two limbs of a u32
Limb == 256 * 256

\* mem::size_of::<u32>()
SizeOfU32 == 4

\* LittleEndian::read_u32 of a 4-byte slice
read_u32(buf) ==
    [lo |-> buf[1] + 256 * buf[2], hi |-> buf[3] + 256 * buf[4]]

\* write_u32 with a fault: the bytes most significant first
write_u32_BigEndian(n) ==
    <<n.hi \div 256, n.hi % 256, n.lo \div 256, n.lo % 256>>

\* LittleEndian::write_u32: the 4 bytes of n, least significant first
write_u32(n) ==
    <<n.lo % 256, n.lo \div 256, n.hi % 256, n.hi \div 256>>

\* u32::MAX
U32Max == [lo |-> Limb - 1, hi |-> Limb - 1]

\* vc + 1 in a build without overflow checks: two's complement wrapping
WrappingInc(vc) ==
    LET lo1 == vc.lo + 1
        hi1 == vc.hi + (lo1 \div Limb)
    IN  [lo |-> lo1 % Limb, hi |-> hi1 % Limb]

\* vc + 1 overflows u32
IncOverflows(vc) == vc = U32Max

\* the slice buf[from..to] (Rust half-open byte offsets)
Slice(buf, from, to) == SubSeq(buf, from + 1, to)

\* buf with the bytes at [from, from + Len(bytes)) replaced by bytes
Patch(buf, from, bytes) ==
    [i \in 1..Len(buf) |->
        IF i > from /\ i <= from + Len(bytes) THEN bytes[i - from] ELSE buf[i]]

-----------------------------------------------------------------------------
(* Values *)

\* public keys: of programs and of account owners
Pubkeys == {"K1", "K2"}

\* ProgramError values the handler can return
NotEnoughAccountKeys == "NotEnoughAccountKeys"
IncorrectProgramId   == "IncorrectProgramId"
InvalidAccountData   == "InvalidAccountData"
AccountBorrowFailed  == "AccountBorrowFailed"

ProgramErrors ==
    {NotEnoughAccountKeys, IncorrectProgramId, InvalidAccountData, AccountBorrowFailed}

\* Ok(()), and the abort of the call by a panic (index out of bounds, overflow)
Ok    == "Ok"
Panic == "Panic"

\* the one vote account of the model, as an element of the accounts slice
VoteAccount == 1

\* instruction payloads the host submits
Instructions == {<<>>, <<0>>, <<1>>, <<2>>, <<3>>, <<255>>, <<1, 2>>}

\* states of the data RefCell: not borrowed, borrowed shared, borrowed mutably
BorrowStates == {"Unused", "Reading", "Writing"}

\* counter contents an account starts with: 0, 255 (carry into the second
\* byte), u32::MAX - 1 and u32::MAX
InitCounters ==
    {<<0, 0, 0, 0>>, <<255, 0, 0, 0>>, <<254, 255, 255, 255>>, <<255, 255, 255, 255>>}

\* bytes after the counters
Tails == {[i \in 1..n |-> 170 + i] : n \in 0..MaxTail}

\* account data the host can hand over: every length from 0 to 8 + MaxTail
InitData ==
    UNION {{SubSeq(ca \o cb \o t, 1, n) : n \in 0..(2 * SizeOfU32 + Len(t))} :
              ca \in InitCounters, cb \in InitCounters, t \in Tails}

-----------------------------------------------------------------------------
(* The handler, statement by statement *)

Init ==
    /\ owner \in Pubkeys
    /\ data \in InitData
    /\ overflow_checks \in BOOLEAN
    /\ program_id = "K1"
    /\ accounts = <<>>
    /\ instruction_data = <<>>
    /\ is_writable = TRUE
    /\ extBorrow = "Unused"
    /\ pc = "idle"
    /\ account = 0
    /\ data_ref = FALSE
    /\ result = "None"
    /\ opRead = FALSE
    /\ before = data
    /\ initial = data
    /\ votes1 = 0
    /\ votes2 = 0
    /\ calls = 0
    /\ prevResult = "None"

\* the call ends with result r: the locals are dropped (the RefMut is released)
Finish(r) ==
    /\ result' = r
    /\ pc' = "done"
    /\ data_ref' = FALSE

\* the host calls process_instruction(program_id, accounts, instruction_data)
Invoke ==
    /\ pc = "idle"
    /\ calls < MaxCalls
    /\ program_id' \in Pubkeys
    /\ accounts' \in {<<>>, <<VoteAccount>>}
    /\ instruction_data' \in Instructions
    /\ is_writable' \in BOOLEAN
    /\ extBorrow' \in BorrowStates
    /\ pc' = "next_account_info"
    /\ account' = 0
    /\ data_ref' = FALSE
    /\ result' = "None"
    /\ opRead' = FALSE
    /\ before' = data
    /\ calls' = calls + 1
    /\ prevResult' = "None"
    /\ UNCHANGED <<owner, data, overflow_checks, initial, votes1, votes2>>

\* next_account_info with a fault: the first account is taken without looking
\* whether the slice holds one
next_account_info_Unchecked(iter) ==
    [ok |-> TRUE, val |-> VoteAccount]

\* next_account_info(iter): the next element of the iterator, or
\* Err(NotEnoughAccountKeys) when it is exhausted
next_account_info(iter) ==
    IF iter = <<>>
    THEN [ok |-> FALSE, val |-> NotEnoughAccountKeys]
    ELSE [ok |-> TRUE, val |-> Head(iter)]

\* let account = next_account_info(accounts_iter)?;
NextAccountInfo ==
    /\ pc = "next_account_info"
    /\ LET r == next_account_info(accounts)
       IN  IF ~r.ok
           THEN /\ Finish(r.val)
                /\ UNCHANGED account
           ELSE /\ account' = r.val
                /\ pc' = "check_owner"
                /\ UNCHANGED <<result, data_ref>>
    /\ UNCHANGED <<owner, data, overflow_checks, program_id, accounts,
                   instruction_data, is_writable, extBorrow, opRead, before,
                   initial, votes1, votes2, calls, prevResult>>

\* OwnerMismatch with a fault: the comparison inverted
OwnerMismatch_Inverted == owner = program_id

\* account.owner != program_id
OwnerMismatch == owner # program_id

\* CheckOwner with a fault: the length is checked before the owner
CheckOwner_LengthFirst ==
    /\ pc = "check_owner"
    /\ IF Len(data) < 2 * SizeOfU32
       THEN Finish(InvalidAccountData)
       ELSE IF owner # program_id
       THEN Finish(IncorrectProgramId)
       ELSE /\ pc' = "check_data_len"
            /\ UNCHANGED <<result, data_ref>>
    /\ UNCHANGED <<owner, data, overflow_checks, program_id, accounts,
                   instruction_data, is_writable, extBorrow, account, opRead,
                   before, initial, votes1, votes2, calls, prevResult>>

\* if account.owner != program_id { return Err(IncorrectProgramId) }
CheckOwner ==
    /\ pc = "check_owner"
    /\ IF OwnerMismatch
       THEN Finish(IncorrectProgramId)
       ELSE /\ pc' = "check_data_len"
            /\ UNCHANGED <<result, data_ref>>
    /\ UNCHANGED <<owner, data, overflow_checks, program_id, accounts,
                   instruction_data, is_writable, extBorrow, account, opRead,
                   before, initial, votes1, votes2, calls, prevResult>>

\* account.try_data_len() fails when the data is mutably borrowed
DataLenBorrowFails == extBorrow = "Writing"

\* DataTooSmall with a fault: room for one u32 only
DataTooSmall_OneCounter(len) == len < SizeOfU32

\* len < 2 * mem::size_of::<u32>()
DataTooSmall(len) == len < 2 * SizeOfU32

\* if account.try_data_len()? < 2 * size_of::<u32>() { return Err(InvalidAccountData) }
CheckDataLen ==
    /\ pc = "check_data_len"
    /\ IF DataLenBorrowFails
       THEN Finish(AccountBorrowFailed)
       ELSE IF DataTooSmall(Len(data))
       THEN Finish(InvalidAccountData)
       ELSE /\ pc' = "borrow_mut_data"
            /\ UNCHANGED <<result, data_ref>>
    /\ UNCHANGED <<owner, data, overflow_checks, program_id, accounts,
                   instruction_data, is_writable, extBorrow, account, opRead,
                   before, initial, votes1, votes2, calls, prevResult>>

\* account.try_borrow_mut_data() fails when the data is borrowed at all
BorrowMutFails == extBorrow # "Unused"

\* let mut data = account.try_borrow_mut_data()?;
BorrowMutData ==
    /\ pc = "borrow_mut_data"
    /\ IF BorrowMutFails
       THEN Finish(AccountBorrowFailed)
       ELSE /\ data_ref' = TRUE
            /\ pc' = "vote1"
            /\ UNCHANGED result
    /\ UNCHANGED <<owner, data, overflow_checks, program_id, accounts,
                   instruction_data, is_writable, extBorrow, account, opRead,
                   before, initial, votes1, votes2, calls, prevResult>>

\* VoteFor2 with a fault: the opcode of candidate 2 off by one
VoteFor2_OffByOne == 2 + 1

\* the opcode of candidate 1 and of candidate 2
VoteFor1 == 1
VoteFor2 == 2

\* the increment of the u32 at data[at..at+4], then the jump to pc next:
\*   let vc = LittleEndian::read_u32(&data[at..at+4]);
\*   LittleEndian::write_u32(&mut data[at..at+4], vc + 1);
\* slicing panics when the range is out of bounds; vc + 1 panics on overflow
\* in a build with overflow checks and wraps in a build without
Increment(at, next) ==
    IF Len(data) < at + SizeOfU32
    THEN Finish(Panic) /\ UNCHANGED data
    ELSE LET vc == read_u32(Slice(data, at, at + SizeOfU32))
         IN  IF IncOverflows(vc) /\ overflow_checks
             THEN Finish(Panic) /\ UNCHANGED data
             ELSE /\ data' = Patch(data, at, write_u32(WrappingInc(vc)))
                  /\ next

\* if 1 == instruction_data[0] { ... }
Vote1 ==
    /\ pc = "vote1"
    /\ IF instruction_data = <<>>
       THEN Finish(Panic) /\ UNCHANGED <<data, opRead>>
       ELSE /\ opRead' = TRUE
            /\ IF VoteFor1 = instruction_data[1]
               THEN Increment(0, pc' = "vote2" /\ UNCHANGED <<result, data_ref>>)
               ELSE /\ pc' = "vote2"
                    /\ UNCHANGED <<data, result, data_ref>>
    /\ UNCHANGED <<owner, overflow_checks, program_id, accounts,
                   instruction_data, is_writable, extBorrow, account,
                   before, initial, votes1, votes2, calls, prevResult>>

\* if 2 == instruction_data[0] { ... }  Ok(())
Vote2 ==
    /\ pc = "vote2"
    /\ IF instruction_data = <<>>
       THEN Finish(Panic) /\ UNCHANGED <<data, opRead>>
       ELSE /\ opRead' = TRUE
            /\ IF VoteFor2 = instruction_data[1]
               THEN Increment(SizeOfU32, Finish(Ok))
               ELSE Finish(Ok) /\ UNCHANGED data
    /\ UNCHANGED <<owner, overflow_checks, program_id, accounts,
                   instruction_data, is_writable, extBorrow, account,
                   before, initial, votes1, votes2, calls, prevResult>>

\* the host's tally of the calls that returned Ok, by opcode
Tally ==
    LET voted(op) == result = Ok /\ instruction_data # <<>> /\ instruction_data[1] = op
    IN  /\ votes1' = IF voted(VoteFor1) THEN votes1 + 1 ELSE votes1
        /\ votes2' = IF voted(VoteFor2) THEN votes2 + 1 ELSE votes2

\* the host takes the result; the arguments of the call are dropped
Return ==
    /\ pc = "done"
    /\ Tally
    /\ pc' = "idle"
    /\ program_id' = "K1"
    /\ accounts' = <<>>
    /\ instruction_data' = <<>>
    /\ is_writable' = TRUE
    /\ extBorrow' = "Unused"
    /\ account' = 0
    /\ opRead' = FALSE
    /\ prevResult' = "None"
    /\ before' = data
    /\ UNCHANGED <<owner, data, overflow_checks, data_ref, result, initial, calls>>

\* the host takes the result and submits the same call again
Retry ==
    /\ pc = "done"
    /\ calls < MaxCalls
    /\ Tally
    /\ prevResult' = result
    /\ pc' = "next_account_info"
    /\ account' = 0
    /\ result' = "None"
    /\ opRead' = FALSE
    /\ before' = data
    /\ calls' = calls + 1
    /\ UNCHANGED <<owner, data, overflow_checks, program_id, accounts,
                   instruction_data, is_writable, extBorrow, data_ref, initial>>

Next ==
    \/ Invoke
    \/ NextAccountInfo
    \/ CheckOwner
    \/ CheckDataLen
    \/ BorrowMutData
    \/ Vote1
    \/ Vote2
    \/ Return
    \/ Retry

Spec == Init /\ [][Next]_vars

TypeOK ==
    /\ owner \in Pubkeys
    /\ data \in Seq(Byte)
    /\ Len(data) = Len(initial)
    /\ result \in ProgramErrors \cup {Ok, Panic, "None"}
    /\ votes1 \in 0..MaxCalls /\ votes2 \in 0..MaxCalls

-----------------------------------------------------------------------------
(* Vocabulary of the properties *)

\* a call is running or has just returned its result
InCall == pc # "idle"

\* the call has returned and the host has not yet taken the result
Returned == pc = "done"

\* the call was given the vote account
HasAccount == accounts # <<>>

\* the account passes the owner and the length check
ValidAccount ==
    HasAccount /\ owner = program_id /\ Len(data) >= 2 * SizeOfU32

\* the opcode of the call is op
Opcode(op) == instruction_data # <<>> /\ instruction_data[1] = op

\* the two counters of a buffer of at least 8 bytes
CounterA(buf) == read_u32(SubSeq(buf, 1, 4))
CounterB(buf) == read_u32(SubSeq(buf, 5, 8))

\* the number x + n, for a u32 x and a small n, in limbs; its hi limb is
\* Limb or more exactly when x + n does not fit 32 bits
Plus(x, n) ==
    LET t == x.lo + n
    IN  [lo |-> t % Limb, hi |-> x.hi + (t \div Limb)]

\* x + n fits 32 bits
Fits(x, n) == Plus(x, n).hi < Limb

\* x < y, for u32 x and y
Less(x, y) == x.hi < y.hi \/ (x.hi = y.hi /\ x.lo < y.lo)

\* the bytes of buf from offset from on
From(buf, from) == SubSeq(buf, from + 1, Len(buf))

-----------------------------------------------------------------------------
(* The claims *)

\* C1: a call whose first account is not owned by the program returns
\* IncorrectProgramId (the spec's NotProgramOwned) and never changes the
\* account data, whatever the data length, the borrow state and the payload.
C1_Ownership ==
    (InCall /\ HasAccount /\ owner # program_id) =>
        /\ data = before
        /\ Returned => result = IncorrectProgramId

\* C1 witness: a call on a foreign account that would otherwise have voted
C1_Witness ==
    /\ Returned /\ HasAccount /\ owner # program_id
    /\ Len(data) >= 2 * SizeOfU32 /\ extBorrow = "Unused" /\ Opcode(1)
    /\ result = IncorrectProgramId

\* C2 as stated: every call on an owned account of fewer than 8 bytes
\* returns InvalidAccountData (the spec's AccountDataTooSmall), data unchanged.
C2_Original ==
    (Returned /\ HasAccount /\ owner = program_id /\ Len(data) < 2 * SizeOfU32) =>
        /\ result = InvalidAccountData
        /\ data = before

\* C2 amended: a call on an owned account of fewer than 8 bytes fails and
\* leaves the data unchanged; the failure is InvalidAccountData unless the
\* data is mutably borrowed by another holder, when try_data_len fails and
\* the failure is AccountBorrowFailed.
C2_Length ==
    (InCall /\ HasAccount /\ owner = program_id /\ Len(data) < 2 * SizeOfU32) =>
        /\ data = before
        /\ Returned =>
            result = IF extBorrow = "Writing" THEN AccountBorrowFailed
                                              ELSE InvalidAccountData

\* C2 witness: a vote on an owned account of 4 bytes is refused
C2_Witness ==
    /\ Returned /\ HasAccount /\ owner = program_id
    /\ Len(data) = SizeOfU32 /\ Opcode(1)
    /\ result = InvalidAccountData

\* C3: on a valid account whose data is not borrowed elsewhere, opcode 1
\* returns Ok and leaves (a + 1, b), opcode 2 returns Ok and leaves
\* (a, b + 1), and every byte outside the incremented counter is unchanged.
C3_ExactIncrement ==
    (Returned /\ ValidAccount /\ extBorrow = "Unused") =>
        /\ Opcode(1) =>
            /\ result = Ok
            /\ CounterA(data) = Plus(CounterA(before), 1)
            /\ From(data, SizeOfU32) = From(before, SizeOfU32)
        /\ Opcode(2) =>
            /\ result = Ok
            /\ CounterB(data) = Plus(CounterB(before), 1)
            /\ SubSeq(data, 1, SizeOfU32) = SubSeq(before, 1, SizeOfU32)
            /\ From(data, 2 * SizeOfU32) = From(before, 2 * SizeOfU32)

\* C4 as stated: on a valid account every opcode other than 1 and 2 returns
\* Ok and leaves the whole buffer unchanged.
C4_Original ==
    (Returned /\ ValidAccount /\ instruction_data # <<>>
        /\ ~Opcode(1) /\ ~Opcode(2)) =>
        /\ result = Ok
        /\ data = before

\* C4 amended: on a valid account every opcode other than 1 and 2 leaves the
\* whole buffer unchanged; the call returns Ok when the data is not borrowed
\* by another holder, and AccountBorrowFailed when it is.
C4_UnknownOpcode ==
    (InCall /\ ValidAccount /\ instruction_data # <<>>
        /\ ~Opcode(1) /\ ~Opcode(2)) =>
        /\ data = before
        /\ Returned =>
            result = IF extBorrow = "Unused" THEN Ok ELSE AccountBorrowFailed

\* C4 witness: opcode 3 on a valid account with non-zero counters returns Ok
C4_Witness ==
    /\ Returned /\ ValidAccount /\ Opcode(3)
    /\ result = Ok /\ opRead
    /\ CounterA(data) # CounterA(<<0, 0, 0, 0>>)

\* C5: on a valid account an empty instruction payload yields a typed
\* failure, never an abort, and the buffer is unchanged.
C5_EmptyInstruction ==
    (Returned /\ ValidAccount /\ instruction_data = <<>>) =>
        /\ result \in ProgramErrors
        /\ data = before

\* C6: no call leaves a counter smaller than it was when the call started;
\* in particular a counter at u32::MAX is not taken to 0.
C6_NoWraparound ==
    (InCall /\ Len(data) >= 2 * SizeOfU32) =>
        /\ ~Less(CounterA(data), CounterA(before))
        /\ ~Less(CounterB(data), CounterB(before))

\* C7: a call with an empty accounts slice returns NotEnoughAccountKeys (the
\* spec's MissingAccount) straight from next_account_info: no later check
\* is reached, the payload is not read and the data is unchanged.
C7_MissingAccount ==
    (InCall /\ ~HasAccount) =>
        /\ pc \in {"next_account_info", "done"}
        /\ data = before
        /\ ~opRead
        /\ account = 0
        /\ Returned => result = NotEnoughAccountKeys

\* C7 witness: a call without accounts and with an empty payload has failed
C7_Witness ==
    /\ Returned /\ ~HasAccount /\ instruction_data = <<>>
    /\ result = NotEnoughAccountKeys

\* C8: between calls, each counter that has not overflowed equals its
\* initial value plus the number of calls that returned Ok with its opcode;
\* and a call that repeats a failed call fails the same way.
C8_Accumulates ==
    /\ (pc = "idle" /\ Len(data) >= 2 * SizeOfU32) =>
        /\ Fits(CounterA(initial), votes1) =>
            CounterA(data) = Plus(CounterA(initial), votes1)
        /\ Fits(CounterB(initial), votes2) =>
            CounterB(data) = Plus(CounterB(initial), votes2)
    /\ (Returned /\ prevResult \notin {"None", Ok}) => result = prevResult

\* C8 witness: two votes for candidate 1 have been counted
C8_Witness ==
    /\ pc = "idle" /\ votes1 = 2 /\ votes2 = 0
    /\ Len(data) >= 2 * SizeOfU32
    /\ CounterA(data) = Plus(CounterA(initial), 2)
    /\ CounterA(initial) = CounterA(<<255, 0, 0, 0>>)

C10_SharedAccess ==
    (InCall /\ HasAccount /\ (~is_writable \/ extBorrow # "Unused")
        /\ (Opcode(1) \/ Opcode(2))) =>
        /\ data = before
        /\ Returned => result # Ok

=============================================================================
